---- MODULE Spec2Model ----
(***************************************************************************)
(* Model of streamcracker.py, the Streamlit page "Steam Cracker Allocation *)
(* Methods".  Streamlit reruns the whole script whenever a sidebar widget  *)
(* changes, so the state is the widgets' values together with what the     *)
(* last run of the script rendered, and every action is one widget change  *)
(* followed by a full run of the script.                                   *)
(*                                                                         *)
(* Python floats are modelled as exact rationals <<n, d>> in lowest terms  *)
(* with d > 0, so the sums below are the real-number sums the floats       *)
(* approximate.  <<0, 0>> stands for a raised ZeroDivisionError.           *)
(***************************************************************************)
EXTENDS Integers, Sequences, FiniteSets, TLC

VARIABLES view, ethylene, propylene, fuel,
          outcome, naphtha_alloc, energy_alloc, df, sankey,
          hvc_naphtha, hvc_energy, all_naphtha, all_energy,
          df_comp, burdens, annotations

vars == <<view, ethylene, propylene, fuel,
          outcome, naphtha_alloc, energy_alloc, df, sankey,
          hvc_naphtha, hvc_energy, all_naphtha, all_energy,
          df_comp, burdens, annotations>>

\* Largest mass a widget is set to, in hundreds of tonnes.
MaxUnits == 5

\* The values the number_input widgets are set to (min_value = 0).
Masses == {k * 100 : k \in 0..MaxUnits}

Views == {"Mass Balance", "Allocation to HVC only", "Allocation to all",
          "Overview Comparison"}

\* A name the script does not bind, or an element it does not render.
None == <<>>

-----------------------------------------------------------------------------
\* Float arithmetic.

RECURSIVE GCD(_, _)
GCD(a, b) == IF b = 0 THEN a ELSE GCD(b, a % b)

Abs(n) == IF n < 0 THEN -n ELSE n

ZeroDivisionError == <<0, 0>>

Raised(x) == x[2] = 0

Float(n, d) ==
    IF d = 0 THEN ZeroDivisionError
    ELSE LET g == GCD(Abs(n), d) IN <<n \div g, d \div g>>

FAdd(a, b) ==
    IF Raised(a) \/ Raised(b) THEN ZeroDivisionError
    ELSE Float(a[1] * b[2] + b[1] * a[2], a[2] * b[2])

FSub(a, b) ==
    IF Raised(a) \/ Raised(b) THEN ZeroDivisionError
    ELSE Float(a[1] * b[2] - b[1] * a[2], a[2] * b[2])

\* float * int
FMul(a, k) == IF Raised(a) THEN ZeroDivisionError ELSE Float(a[1] * k, a[2])

\* float / int; the divisors of the script are never negative.
FDiv(a, k) ==
    IF Raised(a) \/ k = 0 THEN ZeroDivisionError ELSE Float(a[1], a[2] * k)

FLt(a, b) == a[1] * b[2] < b[1] * a[2]

FAbs(a) == <<Abs(a[1]), a[2]>>

FMax(a, b) == IF FLt(a, b) THEN b ELSE a

\* sum(list) of three Python numbers
FSum(l) == FAdd(FAdd(FAdd(Float(0, 1), l[1]), l[2]), l[3])

AnyRaised(l) == \E i \in 1..Len(l) : Raised(l[i])

-----------------------------------------------------------------------------
\* Module-level names of the script.

emission_naphtha == Float(2, 1)
emission_energy == Float(1, 1)

total_mass(e, p, f) == e + p + f

format_table(e, p, f, naphtha_list, energy_list) ==
    LET total == [i \in 1..3 |-> FAdd(naphtha_list[i], energy_list[i])]
    IN [mass |-> <<e, p, f>>,
        naphtha |-> naphtha_list,
        energy |-> energy_list,
        total |-> total,
        total_row |-> [mass |-> total_mass(e, p, f),
                       naphtha |-> FSum(naphtha_list),
                       energy |-> FSum(energy_list),
                       total |-> FSum(total)]]

draw_mass_sankey(e, p, f) ==
    [source |-> <<0, 1, 2, 2, 2>>,
     target |-> <<2, 2, 3, 4, 5>>,
     values |-> <<1000, 10, e, p, f>>]

draw_co2_sankey(naphtha, energy) ==
    [source |-> <<0, 0, 0, 1, 1, 1>>,
     target |-> <<2, 3, 4, 2, 3, 4>>,
     values |-> <<naphtha[1], naphtha[2], naphtha[3],
                  energy[1], energy[2], energy[3]>>]

\* What a run renders when it binds and draws nothing.
Blank ==
    [outcome |-> "ok", naphtha_alloc |-> None, energy_alloc |-> None,
     df |-> None, sankey |-> None, hvc_naphtha |-> None, hvc_energy |-> None,
     all_naphtha |-> None, all_energy |-> None, df_comp |-> None,
     burdens |-> None, annotations |-> None]

\* The run stops at the uncaught exception: no table and no chart follow.
Failed == [Blank EXCEPT !.outcome = "ZeroDivisionError"]

-----------------------------------------------------------------------------
\* The allocation arithmetic.

\* naphtha_alloc of the HVC-only page, hvc_naphtha of the overview.
HvcOnlyNaphtha == <<Float(10, 10), Float(6, 10), Float(4, 10)>>

HvcOnlyEnergyResidual(e, p, denom) ==
    LET eth == FDiv(FMul(emission_energy, e), denom)
        pro == FDiv(FMul(emission_energy, p), denom)
    IN <<eth, pro, FSub(FSub(emission_energy, eth), pro)>>

\* energy_alloc of the HVC-only page (denom = total_hvc), hvc_energy of the
\* overview (denom = 800).
HvcOnlyEnergy(e, p, denom) ==
    <<FDiv(FMul(emission_energy, e), denom),
      FDiv(FMul(emission_energy, p), denom),
      Float(0, 1)>>

AllAllocFixedBasis(emission, e, p, f) ==
    <<FDiv(FMul(emission, e), 1000),
      FDiv(FMul(emission, p), 1000),
      FDiv(FMul(emission, f), 1000)>>

\* naphtha_alloc / energy_alloc of the to-all page, all_naphtha / all_energy
\* of the overview.
AllAlloc(emission, e, p, f) ==
    <<FDiv(FMul(emission, e), total_mass(e, p, f)),
      FDiv(FMul(emission, p), total_mass(e, p, f)),
      FDiv(FMul(emission, f), total_mass(e, p, f))>>

Totals(naphtha, energy) == [i \in 1..3 |-> FAdd(naphtha[i], energy[i])]

BurdenAllMinusHvc(hvc_total, all_total) == FSub(all_total, hvc_total)

\* One element of burdens.
Burden(hvc_total, all_total) == FSub(hvc_total, all_total)

\* The annotation the loop adds for one product, None when it adds none.
Annotation(burden, hvc_total, all_total) ==
    IF FLt(Float(1, 1000), FAbs(burden))
    THEN [y |-> FMax(hvc_total, all_total),
          text |-> IF FLt(Float(0, 1), burden) THEN "Reduced burden"
                   ELSE "Gained burden",
          amount |-> IF FLt(Float(0, 1), burden) THEN burden
                     ELSE FAbs(burden)]
    ELSE None

-----------------------------------------------------------------------------
\* The pages of the script.

MassBalancePage(e, p, f) ==
    [Blank EXCEPT !.sankey = draw_mass_sankey(e, p, f),
                  !.df = [input |-> <<emission_naphtha, emission_energy>>,
                          output |-> <<e, p, f>>]]

HvcOnlyPage(e, p, f) ==
    LET n_alloc == HvcOnlyNaphtha
        total_hvc == e + p
        e_alloc == HvcOnlyEnergy(e, p, total_hvc)
    IN IF AnyRaised(e_alloc) THEN Failed
       ELSE [Blank EXCEPT !.naphtha_alloc = n_alloc,
                          !.energy_alloc = e_alloc,
                          !.df = format_table(e, p, f, n_alloc, e_alloc),
                          !.sankey = draw_co2_sankey(n_alloc, e_alloc)]

AllPage(e, p, f) ==
    LET n_alloc == AllAlloc(emission_naphtha, e, p, f)
        e_alloc == AllAlloc(emission_energy, e, p, f)
    IN IF AnyRaised(n_alloc) \/ AnyRaised(e_alloc) THEN Failed
       ELSE [Blank EXCEPT !.naphtha_alloc = n_alloc,
                          !.energy_alloc = e_alloc,
                          !.df = format_table(e, p, f, n_alloc, e_alloc),
                          !.sankey = draw_co2_sankey(n_alloc, e_alloc)]

OverviewPage(e, p, f) ==
    LET hn == HvcOnlyNaphtha
        he == HvcOnlyEnergy(e, p, 800)
        an == AllAlloc(emission_naphtha, e, p, f)
        ae == AllAlloc(emission_energy, e, p, f)
        ht == Totals(hn, he)
        at == Totals(an, ae)
        bs == [i \in 1..3 |-> Burden(ht[i], at[i])]
    IN IF AnyRaised(he) \/ AnyRaised(an) \/ AnyRaised(ae) THEN Failed
       ELSE [Blank EXCEPT !.hvc_naphtha = hn,
                          !.hvc_energy = he,
                          !.all_naphtha = an,
                          !.all_energy = ae,
                          !.df_comp = ht \o at,
                          !.burdens = bs,
                          !.annotations =
                              [i \in 1..3 |-> Annotation(bs[i], ht[i], at[i])]]

\* One run of the script, top to bottom.
Script(v, e, p, f) ==
    CASE v = "Mass Balance" -> MassBalancePage(e, p, f)
      [] v = "Allocation to HVC only" -> HvcOnlyPage(e, p, f)
      [] v = "Allocation to all" -> AllPage(e, p, f)
      [] v = "Overview Comparison" -> OverviewPage(e, p, f)

\* The widgets hold v, e, p, f and the page shows what the run rendered.
Rerun(v, e, p, f) ==
    LET r == Script(v, e, p, f)
    IN /\ view' = v
       /\ ethylene' = e
       /\ propylene' = p
       /\ fuel' = f
       /\ outcome' = r.outcome
       /\ naphtha_alloc' = r.naphtha_alloc
       /\ energy_alloc' = r.energy_alloc
       /\ df' = r.df
       /\ sankey' = r.sankey
       /\ hvc_naphtha' = r.hvc_naphtha
       /\ hvc_energy' = r.hvc_energy
       /\ all_naphtha' = r.all_naphtha
       /\ all_energy' = r.all_energy
       /\ df_comp' = r.df_comp
       /\ burdens' = r.burdens
       /\ annotations' = r.annotations

\* First load: the selectbox shows its first option, the inputs their value=.
Init ==
    LET r == Script("Mass Balance", 500, 300, 200)
    IN /\ view = "Mass Balance"
       /\ ethylene = 500
       /\ propylene = 300
       /\ fuel = 200
       /\ outcome = r.outcome
       /\ naphtha_alloc = r.naphtha_alloc
       /\ energy_alloc = r.energy_alloc
       /\ df = r.df
       /\ sankey = r.sankey
       /\ hvc_naphtha = r.hvc_naphtha
       /\ hvc_energy = r.hvc_energy
       /\ all_naphtha = r.all_naphtha
       /\ all_energy = r.all_energy
       /\ df_comp = r.df_comp
       /\ burdens = r.burdens
       /\ annotations = r.annotations

SelectView == \E v \in Views \ {view} : Rerun(v, ethylene, propylene, fuel)

SetEthylene == \E m \in Masses \ {ethylene} : Rerun(view, m, propylene, fuel)

SetPropylene == \E m \in Masses \ {propylene} : Rerun(view, ethylene, m, fuel)

SetFuel == \E m \in Masses \ {fuel} : Rerun(view, ethylene, propylene, m)

Next == SelectView \/ SetEthylene \/ SetPropylene \/ SetFuel

Spec == Init /\ [][Next]_vars

-----------------------------------------------------------------------------
\* Properties.

Mass == <<ethylene, propylene, fuel>>

TotalMass == ethylene + propylene + fuel

TotalHvc == ethylene + propylene

Ok == outcome = "ok"

AllocationViews == {"Allocation to HVC only", "Allocation to all"}

NonNeg(x) == x[1] >= 0 /\ x[2] > 0

\* The HVC-only and the to-all totals the overview's bar chart plots.
HvcTotal(i) == df_comp[i]

AllTotal(i) == df_comp[i + 3]

\* The shares the HVC-only rule of the specification gives the three products.
RuleFeedstock ==
    <<FDiv(FMul(Float(2, 1), ethylene), TotalHvc),
      FDiv(FMul(Float(2, 1), propylene), TotalHvc),
      FDiv(FMul(Float(2, 1), fuel), TotalMass)>>

RuleEnergy ==
    <<FDiv(FMul(Float(1, 1), ethylene), TotalHvc),
      FDiv(FMul(Float(1, 1), propylene), TotalHvc),
      Float(0, 1)>>

\* C1: AllProducts conservation.  Whenever total_mass > 0 the to-all page
\* and the overview compute the all-products allocation, its feedstock
\* shares sum to 2.0, its energy shares sum to 1.0 and the per-product totals
\* sum to 3.0 (also in the table's Total row).
C1_AllProductsConservation ==
    /\ (view = "Allocation to all" /\ TotalMass > 0) =>
          /\ Ok
          /\ FSum(naphtha_alloc) = Float(2, 1)
          /\ FSum(energy_alloc) = Float(1, 1)
          /\ FSum(df.total) = Float(3, 1)
          /\ df.total_row.naphtha = Float(2, 1)
          /\ df.total_row.energy = Float(1, 1)
          /\ df.total_row.total = Float(3, 1)
    /\ (view = "Overview Comparison" /\ TotalMass > 0) =>
          /\ Ok
          /\ FSum(all_naphtha) = Float(2, 1)
          /\ FSum(all_energy) = Float(1, 1)
          /\ FSum(<<AllTotal(1), AllTotal(2), AllTotal(3)>>) = Float(3, 1)

\* A to-all table and an overview computed from masses that do not sum to
\* the 1000 t basis, one of them zero.
C1_Witness ==
    /\ view \in {"Allocation to all", "Overview Comparison"}
    /\ Ok
    /\ TotalMass \notin {0, 1000}
    /\ propylene = 0
    /\ view = "Allocation to all" => df.total_row.total = Float(3, 1)

\* C2: HVC-only feedstock formula.  With ethylene + propylene > 0 the
\* HVC-only feedstock shares are 2.0 * mass / (ethylene + propylene) for
\* ethylene and propylene and 2.0 * fuel / total_mass for fuel, on the
\* HVC-only page and in the overview; 1.25, 0.75 and 0.4 for 500/300/200.
C2_HvcOnlyFeedstockFormula ==
    /\ (view = "Allocation to HVC only" /\ TotalHvc > 0) =>
          Ok /\ naphtha_alloc = RuleFeedstock
    /\ (view = "Overview Comparison" /\ TotalHvc > 0) =>
          Ok /\ hvc_naphtha = RuleFeedstock
    /\ (view = "Allocation to HVC only" /\ Mass = <<500, 300, 200>>) =>
          naphtha_alloc = <<Float(125, 100), Float(75, 100), Float(4, 10)>>

\* C3: Zero-mass product.  In every view that computes an allocation, a
\* product whose mass is 0 has total share 0 under the HVC-only policy and
\* under the all-products policy.
C3_ZeroMassProduct ==
    \A i \in 1..3 :
        Mass[i] = 0 =>
            /\ (view \in AllocationViews /\ Ok) => df.total[i] = Float(0, 1)
            /\ (view = "Overview Comparison" /\ Ok) =>
                  HvcTotal(i) = Float(0, 1) /\ AllTotal(i) = Float(0, 1)

C5_HvcOnlyEnergyRule ==
    /\ (view = "Allocation to HVC only" /\ TotalHvc > 0) =>
          /\ Ok
          /\ energy_alloc = RuleEnergy
          /\ FSum(energy_alloc) = Float(1, 1)
    /\ (view = "Overview Comparison" /\ TotalHvc > 0) =>
          /\ Ok
          /\ hvc_energy = RuleEnergy
          /\ FSum(hvc_energy) = Float(1, 1)

\* C6: Zero-sum rejection.  When all three masses are 0 the run ends in an
\* error and shows no allocation, table or chart, whichever view is selected.
C6_ZeroSumRejection ==
    TotalMass = 0 =>
        /\ outcome = "ZeroDivisionError"
        /\ df = None
        /\ sankey = None
        /\ df_comp = None
        /\ naphtha_alloc = None
        /\ energy_alloc = None

\* C7: No silent default.  When ethylene + propylene = 0 (the energy pool is
\* 1.0) the HVC-only page and the overview end in an error and yield no
\* HVC-only shares.
C7_NoSilentDefault ==
    (TotalHvc = 0 /\ view \in {"Allocation to HVC only", "Overview Comparison"}) =>
        /\ outcome = "ZeroDivisionError"
        /\ energy_alloc = None
        /\ hvc_energy = None

\* C8: Normalization conservation.  With a positive sum of entered masses the
\* product outflows of the steam-cracking node equal its 1000 naphtha inflow,
\* and the masses the allocation tables use sum to 1000.
C8_NormalizationConservation ==
    TotalMass > 0 =>
        /\ view = "Mass Balance" =>
              sankey.values[3] + sankey.values[4] + sankey.values[5]
                  = sankey.values[1]
        /\ (view \in AllocationViews /\ Ok) => df.total_row.mass = 1000

\* C9: Non-negativity.  Every feedstock share, energy share and total share
\* that a view computes is >= 0.
C9_NonNegativity ==
    /\ (view \in AllocationViews /\ Ok) =>
          \A i \in 1..3 : /\ NonNeg(naphtha_alloc[i])
                          /\ NonNeg(energy_alloc[i])
                          /\ NonNeg(df.total[i])
    /\ (view = "Overview Comparison" /\ Ok) =>
          /\ \A i \in 1..3 : /\ NonNeg(hvc_naphtha[i])
                             /\ NonNeg(hvc_energy[i])
                             /\ NonNeg(all_naphtha[i])
                             /\ NonNeg(all_energy[i])
          /\ \A i \in 1..6 : NonNeg(df_comp[i])

\* An overview computed for ethylene + propylene above 800 t and no fuel.
C9_Witness ==
    /\ view = "Overview Comparison"
    /\ Ok
    /\ TotalHvc > 800
    /\ fuel = 0
    /\ hvc_energy[3] = Float(0, 1)

\* C10: Burden shift is zero-sum.  In the overview with total_mass > 0 the
\* HVC-only totals and the all-products totals each sum to 3.0 and the three
\* burdens sum to 0.
C10_BurdenZeroSum ==
    (view = "Overview Comparison" /\ TotalMass > 0) =>
        /\ Ok
        /\ FSum(<<HvcTotal(1), HvcTotal(2), HvcTotal(3)>>) = Float(3, 1)
        /\ FSum(<<AllTotal(1), AllTotal(2), AllTotal(3)>>) = Float(3, 1)
        /\ FSum(burdens) = Float(0, 1)

====
